---- MODULE Spec2Model ----
(***************************************************************************)
(* complete-conversion.py: the regex rewriter convert_route_to_async and   *)
(* the progress-reporting driver main.                                     *)
(*                                                                         *)
(* A text is a sequence of one-character strings; every regular expression *)
(* of the source is translated to a matcher over such sequences, and       *)
(* re.sub / re.findall to the left-to-right, non-overlapping scan Python   *)
(* performs.                                                               *)
(***************************************************************************)
EXTENDS Integers, Sequences, FiniteSets, TLC

(***************************************************************************)
(* Character classes and literal text of the patterns.                     *)
(***************************************************************************)

\* \s of Python's re for the characters a TLA+ string can spell
SpaceChars == {" ", "\t", "\n", "\r", "\f"}

\* \w of Python's re, restricted to ASCII: [a-zA-Z0-9_]
WordChars ==
    {"a","b","c","d","e","f","g","h","i","j","k","l","m",
     "n","o","p","q","r","s","t","u","v","w","x","y","z",
     "A","B","C","D","E","F","G","H","I","J","K","L","M",
     "N","O","P","Q","R","S","T","U","V","W","X","Y","Z",
     "0","1","2","3","4","5","6","7","8","9","_"}

LReqRes        == <<"(","r","e","q",","," ","r","e","s">>
LNext          == <<",", " ","n","e","x","t">>
LArrow         == <<"=",">">>
LFunction      == <<"f","u","n","c","t","i","o","n">>
LAsyncParen    == <<"a","s","y","n","c"," ","(">>
LParenArrow    == <<")"," ","=",">">>
LAsyncFunction == <<"a","s","y","n","c"," ","f","u","n","c","t","i","o","n"," ","(">>
LPrepare       == <<"d","b",".","p","r","e","p","a","r","e","(">>
LDotGet        == <<")",".","g","e","t","(">>
LDotAll        == <<")",".","a","l","l","(">>
LDotRun        == <<")",".","r","u","n","(">>
LAwaitGetOne   == <<"a","w","a","i","t"," ","d","b",".","g","e","t","O","n","e","(">>
LAwaitGetAll   == <<"a","w","a","i","t"," ","d","b",".","g","e","t","A","l","l","(">>
LAwaitRun      == <<"a","w","a","i","t"," ","d","b",".","r","u","n","(">>
LCommaBracket  == <<",", " ","[">>
LBracketParen  == <<"]",")">>
LConst         == <<"c","o","n","s","t">>
LParenSemi     == <<")",";">>
LRunCall       == <<".","r","u","n","(">>
LChanges       == <<"r","e","s","u","l","t",".","c","h","a","n","g","e","s">>
LRowCount      == <<"r","e","s","u","l","t",".","r","o","w","C","o","u","n","t">>
LApp           == <<"a","p","p",".">>
LAsyncReqRes   == <<"a","s","y","n","c"," ","(","r","e","q",","," ","r","e","s">>
Verbs          == { <<"g","e","t">>, <<"p","o","s","t">>, <<"p","u","t">>,
                    <<"d","e","l","e","t","e">> }

(***************************************************************************)
(* Matching primitives.                                                    *)
(***************************************************************************)

\* the literal lit occurs in t at position i
LitAt(t, i, lit) ==
    /\ i >= 1
    /\ i + Len(lit) - 1 <= Len(t)
    /\ t[i] = lit[1]
    /\ \A k \in 2..Len(lit) : t[i + k - 1] = lit[k]

\* the element of a one-element set; The({e : x \in {v}}) is e with x the
\* value of v
The(S) == CHOOSE x \in S : TRUE

\* the least element of a set of positions, or 0 when it is empty
FirstOf(S) ==
    The({ IF h = {} THEN 0 ELSE CHOOSE j \in h : \A k \in h : j <= k
          : h \in {S} })

\* a greedy run of a character class followed by a character outside it:
\* the first position >= i whose character is not in cls (past the end of t
\* when the run reaches it)
SkipClass(t, i, cls) ==
    IF i > Len(t) THEN i
    ELSE The({ IF p = 0 THEN Len(t) + 1 ELSE p
               : p \in {FirstOf({j \in i..Len(t) : t[j] \notin cls})} })

\* the first position >= i holding character c, or 0: where [^c]* must stop
FindChar(t, i, c) == FirstOf({j \in i..Len(t) : t[j] = c})

NoMatch == [end |-> 0, repl |-> <<>>]

(***************************************************************************)
(* The seven substitutions of convert_route_to_async.  Each matcher gives  *)
(* the position after the match starting at i (0: no match) and the        *)
(* replacement text.                                                       *)
(***************************************************************************)

\* \((req, res(?:, next)?)\)  starting at i: position of the closing
\* parenthesis, or 0
ParamListClose(t, i) ==
    IF ~LitAt(t, i, LReqRes) THEN 0
    ELSE LET j == i + Len(LReqRes)
             k == IF LitAt(t, j, LNext) THEN j + Len(LNext) ELSE j
         IN  IF k <= Len(t) /\ t[k] = ")" THEN k ELSE 0

\* r'\((req, res(?:, next)?)\)\s*=>'  ->  r'async (\1) =>'
MatchArrow(t, i) ==
    LET k == ParamListClose(t, i)
        s == SkipClass(t, k + 1, SpaceChars)
    IN  IF k # 0 /\ LitAt(t, s, LArrow)
        THEN [end  |-> s + Len(LArrow),
              repl |-> LAsyncParen \o SubSeq(t, i + 1, k - 1) \o LParenArrow]
        ELSE NoMatch

\* r'function\s*\((req, res(?:, next)?)\)'  ->  r'async function (\1)'
MatchFunction(t, i) ==
    IF ~LitAt(t, i, LFunction) THEN NoMatch
    ELSE LET p == SkipClass(t, i + Len(LFunction), SpaceChars)
             k == ParamListClose(t, p)
         IN  IF k # 0
             THEN [end  |-> k + 1,
                   repl |-> LAsyncFunction \o SubSeq(t, p + 1, k - 1) \o <<")">>]
             ELSE NoMatch

\* r'db\.prepare\(([^)]+)\)<call>([^)]*)\)'  ->  helper \o r'\1, [\2])'
\* with <call> one of .get( .all( .run(
MatchPrepared(t, i, call, helper) ==
    IF ~LitAt(t, i, LPrepare) THEN NoMatch
    ELSE LET a  == i + Len(LPrepare)
             c1 == FindChar(t, a, ")")
             b  == c1 + Len(call)
             c2 == FindChar(t, b, ")")
         IN  IF c1 > a /\ LitAt(t, c1, call) /\ c2 # 0
             THEN [end  |-> c2 + 1,
                   repl |-> helper \o SubSeq(t, a, c1 - 1) \o LCommaBracket
                                   \o SubSeq(t, b, c2 - 1) \o LBracketParen]
             ELSE NoMatch

\* r'const\s+(\w+)\s*=\s*db\.prepare\(([^)]+)\);\s*\1\.run\(([^)]*)\)'
\*    ->  r'await db.run(\2, [\3])'
MatchTwoStep(t, i) ==
    IF ~LitAt(t, i, LConst) THEN NoMatch
    ELSE LET w0 == i + Len(LConst)
             n0 == SkipClass(t, w0, SpaceChars)
             n1 == SkipClass(t, n0, WordChars)
             name == SubSeq(t, n0, n1 - 1)
             e0 == SkipClass(t, n1, SpaceChars)
             p0 == SkipClass(t, e0 + 1, SpaceChars)
             a  == p0 + Len(LPrepare)
             c1 == FindChar(t, a, ")")
             r0 == SkipClass(t, c1 + Len(LParenSemi), SpaceChars)
             r1 == r0 + Len(name)
             b  == r1 + Len(LRunCall)
             c2 == FindChar(t, b, ")")
         IN  IF /\ n0 > w0
                /\ n1 > n0
                /\ e0 <= Len(t) /\ t[e0] = "="
                /\ LitAt(t, p0, LPrepare)
                /\ c1 > a
                /\ LitAt(t, c1, LParenSemi)
                /\ r1 - 1 <= Len(t)
                /\ name = SubSeq(t, r0, r1 - 1)
                /\ LitAt(t, r1, LRunCall)
                /\ c2 # 0
             THEN [end  |-> c2 + 1,
                   repl |-> LAwaitRun \o SubSeq(t, a, c1 - 1) \o LCommaBracket
                                      \o SubSeq(t, b, c2 - 1) \o LBracketParen]
             ELSE NoMatch

\* a rename that does not look at what the field belongs to
MatchChanges_AnyReceiver(t, i) ==
    IF LitAt(t, i, <<"c","h","a","n","g","e","s">>)
    THEN [end |-> i + 7, repl |-> <<"r","o","w","C","o","u","n","t">>]
    ELSE NoMatch

\* r'result\.changes'  ->  r'result.rowCount'
MatchChanges(t, i) ==
    IF LitAt(t, i, LChanges)
    THEN [end |-> i + Len(LChanges), repl |-> LRowCount]
    ELSE NoMatch

Rules == {"arrow", "function", "get", "all", "twostep", "run", "changes"}

Match(rule, t, i) ==
    CASE rule = "arrow"    -> MatchArrow(t, i)
      [] rule = "function" -> MatchFunction(t, i)
      [] rule = "get"      -> MatchPrepared(t, i, LDotGet, LAwaitGetOne)
      [] rule = "all"      -> MatchPrepared(t, i, LDotAll, LAwaitGetAll)
      [] rule = "twostep"  -> MatchTwoStep(t, i)
      [] rule = "run"      -> MatchPrepared(t, i, LDotRun, LAwaitRun)
      [] rule = "changes"  -> MatchChanges(t, i)

\* re.sub(pattern, repl, t), for the part of t from position i on: the
\* leftmost match at or after i (at j, the match m) is replaced, the text
\* before it is copied, and the scan goes on after the match
RECURSIVE SubFrom(_, _, _)
SubFrom(rule, t, i) ==
    The({ IF j = 0 THEN SubSeq(t, i, Len(t))
          ELSE The({ SubSeq(t, i, j - 1) \o m.repl \o SubFrom(rule, t, m.end)
                     : m \in {Match(rule, t, j)} })
          : j \in {FirstOf({p \in i..Len(t) : Match(rule, t, p).end # 0})} })

ReSub(rule, t) == The({SubFrom(rule, x, 1) : x \in {t}})

\* Step 1: make the route handler async (arrow form, then function form)
Step1(t) == ReSub("function", ReSub("arrow", t))

\* step 2 with the pattern of step 3
Step2_AllPattern(t) == ReSub("all", t)

\* Steps 2 and 3: db.prepare().get() and db.prepare().all()
Step2(t) == ReSub("get", t)
Step3(t) == ReSub("all", t)

\* step 4 without its first substitution
Step4_ChainedOnly(t) == ReSub("run", t)

\* Step 4: the two-statement run, then the chained run
Step4(t) == ReSub("run", ReSub("twostep", t))

\* Step 5: result.changes to result.rowCount
Step5(t) == ReSub("changes", t)

convert_route_to_async(text) ==
    Step5(Step4(Step3(Step2(Step1(text)))))

(***************************************************************************)
(* The two counting patterns of main.                                      *)
(***************************************************************************)

\* .*? followed by tail, from i: the first position p >= i where tail
\* occurs with no newline in i..p-1 (. does not match a line end), or 0
LazyFind(t, i, tail) ==
    The({ IF p # 0 /\ LitAt(t, p, tail) THEN p ELSE 0
          : p \in {FirstOf({j \in i..Len(t) :
                               LitAt(t, j, tail) \/ t[j] = "\n"})} })

\* app\.(get|post|put|delete)\(  at i: the position after it, or 0
VerbCallEnd(t, i) ==
    IF ~LitAt(t, i, LApp) THEN 0
    ELSE LET a == i + Len(LApp)
             hit == {v \in Verbs : LitAt(t, a, v) /\ LitAt(t, a + Len(v), <<"(">>)}
         IN  IF hit = {} THEN 0
             ELSE LET v == CHOOSE v \in hit : TRUE IN a + Len(v) + 1

\* r'app\.(get|post|put|delete)\([^,]+,.*?' \o tail, at i: the position
\* after the match, or 0
RouteMatchEnd(t, i, tail) ==
    LET a == VerbCallEnd(t, i)
        c == IF a = 0 THEN 0 ELSE FindChar(t, a, ",")
        p == IF c > a THEN LazyFind(t, c + 1, tail) ELSE 0
    IN  IF p # 0 THEN p + Len(tail) ELSE 0

\* len(re.findall(pattern, t)), for the part of t from position i on: the
\* leftmost match at or after i is counted and the scan goes on after it
RECURSIVE CountFrom(_, _, _)
CountFrom(t, i, tail) ==
    The({ IF j = 0 THEN 0
          ELSE The({ 1 + CountFrom(t, e, tail)
                     : e \in {RouteMatchEnd(t, j, tail)} })
          : j \in {FirstOf({p \in i..Len(t) :
                                   RouteMatchEnd(t, p, tail) # 0})} })

CountAllRoutes(t) == The({CountFrom(x, 1, LReqRes) : x \in {t}})

\* the async count without the marker in its pattern
CountAsyncRoutes_NoMarker(t) == The({CountFrom(x, 1, LReqRes) : x \in {t}})

CountAsyncRoutes(t) == The({CountFrom(x, 1, LAsyncReqRes) : x \in {t}})

(***************************************************************************)
(* Source texts the model runs the program on.  A text is written as a     *)
(* sequence of pieces, each a sequence of characters, and is their         *)
(* concatenation.                                                          *)
(***************************************************************************)

MaxRoutes == 2
MaxPieces == 4
MaxArg == 2

RECURSIVE Concat(_)
Concat(pieces) ==
    IF pieces = <<>> THEN <<>> ELSE Head(pieces) \o Concat(Tail(pieces))

SeqsUpTo(S, n) == UNION {[1..k -> S] : k \in 0..n}

TPath      == <<"'","/","x","'">>
TCommaSp   == <<",", " ">>
TBody      == <<" ","{","}">>
TIndent    == <<"\n"," "," ">>
TAsync     == <<"a","s","y","n","c"," ">>
TFunction  == <<"f","u","n","c","t","i","o","n"," ">>
TArrow     == <<" ","=",">">>
TGet       == <<"g","e","t">>
TPost      == <<"p","o","s","t">>
TPut       == <<"p","u","t">>
TDelete    == <<"d","e","l","e","t","e">>

\* a route declaration: app.<verb>('/x', <handler> {}), the handler an arrow
\* function or a function expression, marked async or not, taking
\* (req, res) or (req, res, next), written on one line or one argument a line
Decls(verbs, forms, asyncs, nexts, layouts) ==
    [verb : verbs, form : forms, async : asyncs, next : nexts,
     multiline : layouts]

HandlerText(d) ==
    (IF d.async THEN TAsync ELSE <<>>)
    \o (IF d.form = "function" THEN TFunction ELSE <<>>)
    \o LReqRes \o (IF d.next THEN LNext ELSE <<>>) \o <<")">>
    \o (IF d.form = "arrow" THEN TArrow ELSE <<>>)

DeclText(d) ==
    IF d.multiline
    THEN LApp \o d.verb \o <<"(">> \o TIndent \o TPath \o <<",">> \o TIndent
         \o HandlerText(d) \o TBody \o <<"\n", ")", "\n">>
    ELSE LApp \o d.verb \o <<"(">> \o TPath \o TCommaSp
         \o HandlerText(d) \o TBody \o <<")", "\n">>

FileText(decls) == Concat([k \in 1..Len(decls) |-> DeclText(decls[k])])

\* pieces of arbitrary text around the two counting patterns
RoutePieces ==
    { <<"a","p","p",".","g","e","t","(">>,
      <<"a","p","p",".","p","u","t","(","'","/","x","'",",">>,
      <<"x">>, <<",">>, <<"\n">>, LReqRes, LAsyncReqRes }

\* pieces of the expressions X and Y of a database call
ArgPieces == { <<"a",","," ","b">>, <<"f","(","1",")">>, LChanges }

\* binding names: two identifiers of word characters and one that is not
TStmt  == <<"s","t","m","t">>
Names  == { <<"s">>, TStmt, <<"$","s">> }

\* pieces of text around the field rename
FieldPieces ==
    { <<"r","e","s","u","l","t",".">>, <<"i","n","f","o",".">>,
      <<"c","h","a","n","g","e","s">>, <<"r","o","w","C","o","u","n","t">>,
      <<" ">> }

TConstSp == <<"c","o","n","s","t"," ">>
TAssign  == <<" ","="," ">>
TSemiSp  == <<")",";"," ">>

\* db.prepare(X).get(Y)
GetText(g) == LPrepare \o Concat(g.X) \o LDotGet \o Concat(g.Y) \o <<")">>

\* const d = db.prepare(X); r.run(Y)
RunText(g) ==
    TConstSp \o g.declared \o TAssign \o LPrepare \o Concat(g.X) \o TSemiSp
    \o g.run \o LRunCall \o Concat(g.Y) \o <<")">>

(***************************************************************************)
(* State.                                                                  *)
(***************************************************************************)

VARIABLES
    given,          \* how the input text was put together (never changes)
    file,           \* /data/ASM/server.js: [state, text]
    pc,             \* where main is
    content,        \* main's content
    all_routes,     \* main's all_routes
    async_routes,   \* main's async_routes
    stdout,         \* the lines printed, [line, value]
    uncaught,       \* the exception main ended with, or "none"
    exit_status,    \* the process exit status, -1 while running
    rewriter_calls, \* calls of convert_route_to_async so far
    route_content,  \* the text handed to convert_route_to_async
    once,           \* convert_route_to_async(route_content)
    twice,          \* convert_route_to_async(once)
    report,         \* the two counts on route_content and on once
    hpc             \* where the rewriter's caller is

vars == <<given, file, pc, content, all_routes, async_routes, stdout, uncaught,
          exit_status, rewriter_calls, route_content, once, twice, report, hpc>>

mainVars == <<file, pc, content, all_routes, async_routes, stdout, uncaught,
              exit_status>>
callerVars == <<route_content, once, twice, report, hpc>>

NoReport == [total0 |-> 0, async0 |-> 0, total1 |-> 0, async1 |-> 0]

MainIdle(f) ==
    /\ file = f
    /\ pc = "start"
    /\ content = <<>>
    /\ all_routes = 0
    /\ async_routes = 0
    /\ stdout = <<>>
    /\ uncaught = "none"
    /\ exit_status = -1
    /\ rewriter_calls = 0

CallerIdle(t) ==
    /\ route_content = t
    /\ once = <<>>
    /\ twice = <<>>
    /\ report = NoReport
    /\ hpc = "input"

NoFile == { [state |-> "missing", text |-> <<>>],
            [state |-> "unreadable", text |-> <<>>] }

(***************************************************************************)
(* main                                                                    *)
(***************************************************************************)

Line(l, v) == [line |-> l, value |-> v]

\* a main that converts what it read before counting
ScannedText_Converted == convert_route_to_async(content)

\* the text the two findall calls scan
ScannedText == content

\* the four banner prints
PrintBanner ==
    /\ pc = "start"
    /\ stdout' = stdout \o << Line("title", 0), Line("rule", 0),
                              Line("note", 0), Line("warning", 0) >>
    /\ pc' = "read"
    /\ UNCHANGED <<given, file, content, all_routes, async_routes, uncaught,
                   exit_status, rewriter_calls, callerVars>>

\* open(..., 'r') and f.read() succeed
ReadFile ==
    /\ pc = "read"
    /\ file.state = "present"
    /\ content' = file.text
    /\ pc' = "count"
    /\ UNCHANGED <<given, file, all_routes, async_routes, stdout, uncaught,
                   exit_status, rewriter_calls, callerVars>>

\* a handler that prints the error and goes on
ReadNotFound_NoExit ==
    /\ pc = "read"
    /\ file.state = "missing"
    /\ stdout' = Append(stdout, Line("error", 0))
    /\ pc' = "count"
    /\ UNCHANGED <<given, file, content, all_routes, async_routes, uncaught,
                   exit_status, rewriter_calls, callerVars>>

\* open raises FileNotFoundError: the handler prints and calls sys.exit(1)
ReadNotFound ==
    /\ pc = "read"
    /\ file.state = "missing"
    /\ stdout' = Append(stdout, Line("error", 0))
    /\ exit_status' = 1
    /\ pc' = "exited"
    /\ UNCHANGED <<given, file, content, all_routes, async_routes, uncaught,
                   rewriter_calls, callerVars>>

\* open or read raises another exception (PermissionError, IsADirectoryError,
\* UnicodeDecodeError): not caught, the interpreter exits with status 1
ReadRaises ==
    /\ pc = "read"
    /\ file.state = "unreadable"
    /\ uncaught' = "OSError"
    /\ exit_status' = 1
    /\ pc' = "exited"
    /\ UNCHANGED <<given, file, content, all_routes, async_routes, stdout,
                   rewriter_calls, callerVars>>

CountRoutes ==
    /\ pc = "count"
    /\ all_routes' = CountAllRoutes(ScannedText)
    /\ async_routes' = CountAsyncRoutes(ScannedText)
    /\ pc' = "report"
    /\ UNCHANGED <<given, file, content, stdout, uncaught, exit_status,
                   rewriter_calls, callerVars>>

\* the subtraction with its operands exchanged
Remaining_Swapped == async_routes - all_routes

\* the value printed after "Remaining: "
Remaining == all_routes - async_routes

\* the three prints of lines 83-85
PrintCounts ==
    /\ pc = "report"
    /\ stdout' = stdout \o << Line("total", all_routes),
                              Line("async", async_routes),
                              Line("remaining", Remaining) >>
    /\ pc' = "progress"
    /\ UNCHANGED <<given, file, content, all_routes, async_routes, uncaught,
                   exit_status, rewriter_calls, callerVars>>

\* the value printed before "%"
Percentage == (async_routes * 100) \div all_routes

\* line 86 with all_routes # 0, then main returns and the process exits 0
PrintProgress ==
    /\ pc = "progress"
    /\ all_routes # 0
    /\ stdout' = Append(stdout, Line("progress", Percentage))
    /\ exit_status' = 0
    /\ pc' = "exited"
    /\ UNCHANGED <<given, file, content, all_routes, async_routes, uncaught,
                   rewriter_calls, callerVars>>

\* a progress line guarded against all_routes = 0
ProgressRaises_Guarded ==
    /\ pc = "progress"
    /\ all_routes = 0
    /\ stdout' = Append(stdout, Line("progress", 0))
    /\ exit_status' = 0
    /\ pc' = "exited"
    /\ UNCHANGED <<given, file, content, all_routes, async_routes, uncaught,
                   rewriter_calls, callerVars>>

\* line 86 with all_routes = 0: the f-string raises ZeroDivisionError before
\* print is called; nothing catches it and the interpreter exits with status 1
ProgressRaises ==
    /\ pc = "progress"
    /\ all_routes = 0
    /\ uncaught' = "ZeroDivisionError"
    /\ exit_status' = 1
    /\ pc' = "exited"
    /\ UNCHANGED <<given, file, content, all_routes, async_routes, stdout,
                   rewriter_calls, callerVars>>

main ==
    \/ PrintBanner
    \/ ReadFile
    \/ ReadNotFound
    \/ ReadRaises
    \/ CountRoutes
    \/ PrintCounts
    \/ PrintProgress
    \/ ProgressRaises

\* the target file holds route declarations, or is missing or unreadable
Init ==
    /\ given \in [family : {"file"},
                  decls : SeqsUpTo(Decls({TGet, TPost}, {"arrow", "function"},
                                         BOOLEAN, {FALSE}, BOOLEAN),
                                   MaxRoutes)]
    /\ \/ MainIdle([state |-> "present", text |-> FileText(given.decls)])
       \/ given.decls = <<>> /\ \E f \in NoFile : MainIdle(f)
    /\ CallerIdle(<<>>)

Next == main

Spec == Init /\ [][Next]_vars

\* the target file holds arbitrary text around the pieces the patterns look for
InitAnyText ==
    /\ given \in [family : {"text"}, pieces : SeqsUpTo(RoutePieces, MaxPieces)]
    /\ \/ MainIdle([state |-> "present", text |-> Concat(given.pieces)])
       \/ given.pieces = <<>> /\ \E f \in NoFile : MainIdle(f)
    /\ CallerIdle(<<>>)

SpecAnyText == InitAnyText /\ [][Next]_vars

(***************************************************************************)
(* A caller of convert_route_to_async: main never calls it, so the model   *)
(* applies it to a text, then to its own output, and counts the routes of  *)
(* the text and of the output as main counts them.                         *)
(***************************************************************************)

Convert ==
    /\ hpc = "input"
    /\ once' = convert_route_to_async(route_content)
    /\ rewriter_calls' = rewriter_calls + 1
    /\ hpc' = "once"
    /\ UNCHANGED <<given, mainVars, route_content, twice, report>>

ConvertAgain ==
    /\ hpc = "once"
    /\ twice' = convert_route_to_async(once)
    /\ rewriter_calls' = rewriter_calls + 1
    /\ hpc' = "twice"
    /\ UNCHANGED <<given, mainVars, route_content, once, report>>

CountBoth ==
    /\ hpc = "twice"
    /\ report' = [total0 |-> CountAllRoutes(route_content),
                  async0 |-> CountAsyncRoutes(route_content),
                  total1 |-> CountAllRoutes(once),
                  async1 |-> CountAsyncRoutes(once)]
    /\ hpc' = "counted"
    /\ UNCHANGED <<given, mainVars, rewriter_calls, route_content, once, twice>>

NextCaller == Convert \/ ConvertAgain \/ CountBoth

NoMain == MainIdle([state |-> "missing", text |-> <<>>])

\* one-line route declarations with handlers of every shape
InitRoutes ==
    /\ given \in [family : {"routes"},
                  decls : SeqsUpTo(Decls({TPut, TDelete}, {"arrow", "function"},
                                         BOOLEAN, BOOLEAN, {FALSE}),
                                   MaxRoutes) \ {<<>>}]
    /\ NoMain
    /\ CallerIdle(FileText(given.decls))

SpecRoutes == InitRoutes /\ [][NextCaller]_vars

\* db.prepare(X).get(Y)
InitGet ==
    /\ given \in [family : {"get"}, X : SeqsUpTo(ArgPieces, MaxArg),
                  Y : SeqsUpTo(ArgPieces, MaxArg)]
    /\ NoMain
    /\ CallerIdle(GetText(given))

SpecGet == InitGet /\ [][NextCaller]_vars

\* const d = db.prepare(X); r.run(Y)
InitRun ==
    /\ given \in [family : {"run"}, declared : Names, run : Names,
                  X : SeqsUpTo(ArgPieces, MaxArg),
                  Y : SeqsUpTo(ArgPieces, MaxArg)]
    /\ NoMain
    /\ CallerIdle(RunText(given))

SpecRun == InitRun /\ [][NextCaller]_vars

\* text around result.changes
InitFields ==
    /\ given \in [family : {"fields"}, pieces : SeqsUpTo(FieldPieces, MaxPieces)]
    /\ NoMain
    /\ CallerIdle(Concat(given.pieces))

SpecFields == InitFields /\ [][NextCaller]_vars

(***************************************************************************)
(* Properties.                                                             *)
(***************************************************************************)

Occurs(t, lit) == \E i \in 1..Len(t) : LitAt(t, i, lit)

NoParen(t) == \A i \in 1..Len(t) : t[i] \notin {"(", ")"}

\* the values printed on the lines of kind l
Printed(l) == {stdout[k].value : k \in {i \in 1..Len(stdout) : stdout[i].line = l}}

\* main is past the two findall calls
Counted == pc \in {"report", "progress", "exited"} /\ file.state = "present"

\* N: the route declarations of the file; K: those with the async marker
\* right before the parameter list, async (req, res
DeclaredRoutes == Len(given.decls)
DeclaredAsync ==
    Cardinality({k \in 1..Len(given.decls) :
                   given.decls[k].async /\ given.decls[k].form = "arrow"})
OneLine == \A k \in 1..Len(given.decls) : ~given.decls[k].multiline

ReportsDeclared ==
    /\ Counted => /\ all_routes = DeclaredRoutes
                  /\ async_routes = DeclaredAsync
    /\ Counted /\ pc # "report" =>
          Printed("remaining") = {DeclaredRoutes - DeclaredAsync}
    /\ Counted /\ pc = "exited" /\ DeclaredRoutes > 0 =>
          Printed("progress") = {(DeclaredAsync * 100) \div DeclaredRoutes}

\* C1 as stated: for a file of N route declarations, K of them async, main
\* computes all_routes = N and async_routes = K and prints N - K and
\* floor(K*100/N)
C1_AnyLayout == ReportsDeclared

\* C1, amended: the same, for declarations whose handler's parameter list is
\* on the line of the comma that follows the route path
C1_OneLine == OneLine => ReportsDeclared

C1_Witness ==
    /\ pc = "exited"
    /\ OneLine
    /\ DeclaredRoutes = 2
    /\ DeclaredAsync = 1
    /\ Printed("remaining") = {1}
    /\ Printed("progress") = {50}

\* C2 as stated: every handler ends up marked async exactly once, one that
\* was async already is unchanged, and converting twice equals converting once
AllAsync(decls) == [k \in 1..Len(decls) |-> [decls[k] EXCEPT !.async = TRUE]]

C2_MarkedOnce ==
    /\ hpc # "input" => once = FileText(AllAsync(given.decls))
    /\ hpc \in {"twice", "counted"} => twice = once

\* db.prepare(X).get(Y) and const s = db.prepare(X); s.run(Y), converted
GetOneText(g) ==
    LAwaitGetOne \o Concat(g.X) \o LCommaBracket \o Concat(g.Y) \o LBracketParen
RunHelperText(g) ==
    LAwaitRun \o Concat(g.X) \o LCommaBracket \o Concat(g.Y) \o LBracketParen

PlainArgs(g) ==
    /\ NoParen(Concat(g.X)) /\ NoParen(Concat(g.Y))
    /\ g.X # <<>>
    /\ ~Occurs(Concat(g.X), LChanges) /\ ~Occurs(Concat(g.Y), LChanges)

\* C3 as stated: for every X and Y without a parenthesis,
\* db.prepare(X).get(Y) becomes await db.getOne(X, [Y])
C3_AnyArgs ==
    hpc # "input" /\ NoParen(Concat(given.X)) /\ NoParen(Concat(given.Y))
        => once = GetOneText(given)

\* C3, amended: the same for a non-empty X, and X and Y without result.changes
C3_PlainArgs == hpc # "input" /\ PlainArgs(given) => once = GetOneText(given)

C3_Witness ==
    /\ hpc = "once"
    /\ PlainArgs(given)
    /\ Len(given.X) = 2
    /\ given.Y # <<>>
    /\ once = GetOneText(given)
    /\ once # route_content

IsWord(name) == name # <<>> /\ \A i \in 1..Len(name) : name[i] \in WordChars

RunConverted ==
    /\ given.declared = given.run =>
          /\ once = RunHelperText(given)
          /\ ~Occurs(once, LConst)
          /\ ~Occurs(once, given.run \o LRunCall)
    /\ given.declared # given.run => ~Occurs(once, LAwaitRun)

\* the two statements collapsed when they name one binding, left alone when
\* they name two
RunCollapsed ==
    /\ given.declared = given.run => once = RunHelperText(given)
    /\ given.declared # given.run => once = route_content

\* C4 as stated: for every binding name and every X and Y,
\* const s = db.prepare(X); s.run(Y) becomes await db.run(X, [Y]), nothing of
\* s is left, and nothing is converted when another binding is run
C4_AnyArgs == hpc # "input" => RunConverted

\* C4, amended: for binding names of word characters, a non-empty X, and X
\* and Y without a parenthesis and without result.changes, the output is
\* exactly await db.run(X, [Y]) when the binding run is the one declared, and
\* the input itself when it is another
C4_PlainArgs ==
    hpc # "input" /\ IsWord(given.declared) /\ IsWord(given.run)
                  /\ PlainArgs(given)
        => RunCollapsed

C4_Witness ==
    /\ hpc = "once"
    /\ given.declared = TStmt
    /\ given.run = TStmt
    /\ PlainArgs(given)
    /\ given.Y # <<>>
    /\ once = RunHelperText(given)

TChangesField == <<"c","h","a","n","g","e","s">>
TRowCountField == <<"r","o","w","C","o","u","n","t">>
TResultDot == <<"r","e","s","u","l","t",".">>
TInfoDot == <<"i","n","f","o",".">>

RenameEvery(pieces) ==
    [k \in 1..Len(pieces) |->
        IF pieces[k] = TChangesField THEN TRowCountField ELSE pieces[k]]

RenameAfterResult(pieces) ==
    [k \in 1..Len(pieces) |->
        IF pieces[k] = TChangesField /\ k > 1 /\ pieces[k - 1] = TResultDot
        THEN TRowCountField ELSE pieces[k]]

\* C5 as stated: every occurrence of changes becomes rowCount and nothing
\* else is altered
C5_EveryChanges == hpc # "input" => once = Concat(RenameEvery(given.pieces))

\* C5, amended: every occurrence of result.changes becomes result.rowCount;
\* changes after anything else, and every other character, is unchanged
C5_ResultChanges ==
    hpc # "input" => once = Concat(RenameAfterResult(given.pieces))

C5_Witness ==
    /\ hpc = "once"
    /\ \E k \in 1..(Len(given.pieces) - 1) :
          given.pieces[k] = TResultDot /\ given.pieces[k + 1] = TChangesField
    /\ \E k \in 1..(Len(given.pieces) - 1) :
          given.pieces[k] = TInfoDot /\ given.pieces[k + 1] = TChangesField
    /\ once # route_content
    /\ Occurs(once, TChangesField)

MissingRun ==
    file.state = "missing" =>
        /\ pc \in {"start", "read", "exited"}
        /\ Printed("total") \cup Printed("async") \cup Printed("remaining")
             \cup Printed("progress") = {}
        /\ pc = "exited" => /\ exit_status = 1
                            /\ Len(stdout) > 0
                            /\ stdout[Len(stdout)].line = "error"

\* C6 as stated: with the file missing main prints an error and exits with
\* status 1 without counting or reporting, and no other run exits with 1
C6_OnlyMissing ==
    /\ MissingRun
    /\ exit_status = 1 => file.state = "missing"

\* C6, amended: ... and any other run that exits with status 1 ended with an
\* exception nothing caught; a run that completes exits with 0
C6_MissingOrUncaught ==
    /\ MissingRun
    /\ exit_status = 1 => file.state = "missing" \/ uncaught # "none"
    /\ file.state = "missing" => uncaught = "none"
    /\ pc = "exited" /\ uncaught = "none" /\ file.state # "missing"
          => exit_status = 0

C6_Witness ==
    /\ file.state = "missing"
    /\ pc = "exited"
    /\ exit_status = 1
    /\ stdout[Len(stdout)].line = "error"

\* C7: with the file read and all_routes = 0 the run ends with the uncaught
\* ZeroDivisionError, not with status 0 and with no progress line; with
\* all_routes > 0 it ends normally with status 0
C7_ZeroRoutes ==
    pc = "exited" /\ file.state = "present" =>
        /\ all_routes = 0 => /\ uncaught = "ZeroDivisionError"
                             /\ exit_status # 0
                             /\ Printed("progress") = {}
        /\ all_routes > 0 => /\ uncaught = "none"
                             /\ exit_status = 0
                             /\ Printed("progress") # {}

C7_Witness ==
    /\ pc = "exited"
    /\ file.state = "present"
    /\ all_routes = 0
    /\ uncaught = "ZeroDivisionError"
    /\ Printed("total") = {0}
    /\ Printed("progress") = {}

C9_AllConverted ==
    hpc = "counted" /\ (\A k \in 1..Len(given.decls) : ~given.decls[k].async)
        => /\ report.total1 = report.total0
           /\ report.async1 = report.total1
           /\ report.async0 = 0

\* C10: async_routes never exceeds all_routes, the remaining count printed
\* is never negative and the percentage printed is between 0 and 100
C10_Bounded ==
    /\ async_routes <= all_routes
    /\ \A v \in Printed("remaining") : v >= 0
    /\ \A v \in Printed("progress") : v >= 0 /\ v <= 100

C10_Witness ==
    /\ pc = "exited"
    /\ async_routes > 0
    /\ async_routes < all_routes
    /\ \E v \in Printed("progress") : v > 0 /\ v < 100
====
